---- MODULE Spec2Model ----
(***************************************************************************)
(* Model of src/main.py: find_document_title and process_pdf, the title    *)
(* and heading-outline extraction over the page/block/line/span structure  *)
(* the span source (fitz) supplies.                                        *)
(*                                                                         *)
(* Representation.  A Python str is a sequence of characters, each a       *)
(* string: an ASCII character is itself, any other is its code point.      *)
(* A span size is an integer number of half points (24 is 12.0pt, 25 is    *)
(* 12.5pt).  A block's bbox is kept as its top and bottom edge, in the     *)
(* same unit as the page's height.                                         *)
(***************************************************************************)
EXTENDS Integers, Sequences, FiniteSets, TLC

\* ------------------------------------------------------------------------
\* The strings the code names and the texts and font names of the documents
\* ------------------------------------------------------------------------

\* 'Untitled Document'
T_Untitled ==
    <<"U", "n", "t", "i", "t", "l", "e", "d", " ", "D", "o", "c", "u", "m", "e", "n", "t">>

\* 'Empty Document'
T_Empty ==
    <<"E", "m", "p", "t", "y", " ", "D", "o", "c", "u", "m", "e", "n", "t">>

\* 'bold'
T_Bold ==
    <<"b", "o", "l", "d">>

\* 'Chapter'
T_Chapter ==
    <<"C", "h", "a", "p", "t", "e", "r">>

\* 'Appendix'
T_Appendix ==
    <<"A", "p", "p", "e", "n", "d", "i", "x">>

\* 'Arial'
F_Arial ==
    <<"A", "r", "i", "a", "l">>

\* 'Arial-Bold'
F_ArialBold ==
    <<"A", "r", "i", "a", "l", "-", "B", "o", "l", "d">>

\* 'Times-BOLDItalic'
F_TimesBOLD ==
    <<"T", "i", "m", "e", "s", "-", "B", "O", "L", "D", "I", "t", "a", "l", "i", "c">>

\* 'Annual Report 2024'
T_AnnualReport ==
    <<"A", "n", "n", "u", "a", "l", " ", "R", "e", "p", "o", "r", "t", " ", "2", "0", "2", "4">>

\* '1. Overview'
T_OneOverview ==
    <<"1", ".", " ", "O", "v", "e", "r", "v", "i", "e", "w">>

\* '1.1 Details'
T_OneOneDetails ==
    <<"1", ".", "1", " ", "D", "e", "t", "a", "i", "l", "s">>

\* 'Overview'
T_Overview ==
    <<"O", "v", "e", "r", "v", "i", "e", "w">>

\* 'Details'
T_Details ==
    <<"D", "e", "t", "a", "i", "l", "s">>

\* ' Overview '
T_OverviewPadded ==
    <<" ", "O", "v", "e", "r", "v", "i", "e", "w", " ">>

\* 'OVERVIEW'
T_OVERVIEW ==
    <<"O", "V", "E", "R", "V", "I", "E", "W">>

\* '1.'
T_One ==
    <<"1", ".">>

\* 'Lorem ipsum'
T_Lorem ==
    <<"L", "o", "r", "e", "m", " ", "i", "p", "s", "u", "m">>

\* 'dolor sit amet'
T_Dolor ==
    <<"d", "o", "l", "o", "r", " ", "s", "i", "t", " ", "a", "m", "e", "t">>

\* 'Summary'
T_Summary ==
    <<"S", "u", "m", "m", "a", "r", "y">>

\* 'Methods'
T_Methods ==
    <<"M", "e", "t", "h", "o", "d", "s">>

\* 'Results'
T_Results ==
    <<"R", "e", "s", "u", "l", "t", "s">>

\* 'Notes on scope'
T_Notes ==
    <<"N", "o", "t", "e", "s", " ", "o", "n", " ", "s", "c", "o", "p", "e">>

\* 'Chapter 2 Methods'
T_ChapterTwo ==
    <<"C", "h", "a", "p", "t", "e", "r", " ", "2", " ", "M", "e", "t", "h", "o", "d", "s">>

\* '1.2 See fig. 3.4 for details'
T_SeeFig ==
    <<"1", ".", "2", " ", "S", "e", "e", " ", "f", "i", "g", ".", " ", "3", ".", "4", " ", "f", "o", "r", " ", "d", "e", "t", "a", "i", "l", "s">>

\* 'Appendix B-Data'
T_AppendixB ==
    <<"A", "p", "p", "e", "n", "d", "i", "x", " ", "B", "-", "D", "a", "t", "a">>

\* '2 Scope'
T_TwoScope ==
    <<"2", " ", "S", "c", "o", "p", "e">>

\* '1.2.3 Deep'
T_Deep ==
    <<"1", ".", "2", ".", "3", " ", "D", "e", "e", "p">>

\* '2024Report'
T_2024Report ==
    <<"2", "0", "2", "4", "R", "e", "p", "o", "r", "t">>

\* 'Appendix Alpha'
T_AppendixAlpha ==
    <<"A", "p", "p", "e", "n", "d", "i", "x", " ", "A", "l", "p", "h", "a">>

\* 'ab'
T_Ab ==
    <<"a", "b">>

\* 'a b c d e f g h i j'
T_TenWords ==
    <<"a", " ", "b", " ", "c", " ", "d", " ", "e", " ", "f", " ", "g", " ", "h", " ", "i", " ", "j">>

\* '  '
T_Blank ==
    <<" ", " ">>

\* 'Page Header'
T_Header ==
    <<"P", "a", "g", "e", " ", "H", "e", "a", "d", "e", "r">>

\* 'Big Footer Title'
T_Footer ==
    <<"B", "i", "g", " ", "F", "o", "o", "t", "e", "r", " ", "T", "i", "t", "l", "e">>

\* 'Annual\tReport'
T_TabTitle ==
    <<"A", "n", "n", "u", "a", "l", "\t", "R", "e", "p", "o", "r", "t">>

\* '2024'
T_Year ==
    <<"2", "0", "2", "4">>

\* an Arabic-Indic digit three, then ' Intro'
T_ArabicIntro ==
    <<"U+0663", " ", "I", "n", "t", "r", "o">>

\* 'Appendix', e with acute, '-Notes'
T_AppendixE ==
    <<"A", "p", "p", "e", "n", "d", "i", "x", " ", "U+00E9", "-", "N", "o", "t", "e", "s">>

\* '1. ', capital E with acute, 'T', capital E with acute
T_EteUpper ==
    <<"1", ".", " ", "U+00C9", "T", "U+00C9">>

\* the same in small letters
T_EteLower ==
    <<"1", ".", " ", "U+00E9", "t", "U+00E9">>

\* '1', a newline, 'Intro', a carriage return
T_NewlineIntro ==
    <<"1", "\n", "I", "n", "t", "r", "o", "\r">>

\* 'ab' and a form feed
T_AbFeed ==
    <<"a", "b", "\f">>

\* '2 ', capital I with dot above, 'an'
T_DottedI ==
    <<"2", " ", "U+0130", "a", "n">>

\* '2 i', a combining dot above, 'an'
T_DotI ==
    <<"2", " ", "i", "U+0307", "a", "n">>

\* '2 ', capital alpha, capital sigma
T_SigmaUpper ==
    <<"2", " ", "U+0391", "U+03A3">>

\* '2 ', small alpha, small final sigma
T_SigmaLower ==
    <<"2", " ", "U+03B1", "U+03C2">>

\* 'Big', a newline, 'Deal'
T_BigDeal ==
    <<"B", "i", "g", "\n", "D", "e", "a", "l">>

\* ------------------------------------------------------------------------
\* Characters and the str / re operations the code uses
\* ------------------------------------------------------------------------

\* the characters texts and font names are written in; a character outside
\* ASCII is written by its code point, "U+00E9" being one character
Alphabet ==
    {"A", "B", "C", "D", "E", "F", "G", "H", "I", "J", "K", "L", "M", "N",
     "O", "P", "Q", "R", "S", "T", "U", "V", "W", "X", "Y", "Z", "a", "b",
     "c", "d", "e", "f", "g", "h", "i", "j", "k", "l", "m", "n", "o", "p",
     "q", "r", "s", "t", "u", "v", "w", "x", "y", "z", "0", "1", "2", "3",
     "4", "5", "6", "7", "8", "9", " ", ".", "-", "_", "\t", "\n", "\r",
     "\f", "U+000B", "U+001C", "U+0085", "U+00A0", "U+2003", "U+0663",
     "U+0967", "U+FF13", "U+00B2", "U+00AA", "U+00B5", "U+00C4", "U+00C9",
     "U+00D8", "U+00DF", "U+00E4", "U+00E9", "U+00F8", "U+0130", "U+0307",
     "U+0391", "U+03A3", "U+03B1", "U+03C2", "U+03C3"}

\* the characters of the alphabet re's \d matches: the decimal digits of
\* every script (the pattern is a str pattern compiled without re.ASCII)
Digit ==
    {"0", "1", "2", "3", "4", "5", "6", "7", "8", "9", "U+0663", "U+0967",
     "U+FF13"}

\* the characters of the alphabet re's \s matches, which are those
\* str.strip() and str.split() remove
Space ==
    {" ", "\t", "\n", "\r", "\f", "U+000B", "U+001C", "U+0085", "U+00A0",
     "U+2003"}

\* the characters of the alphabet re's \w matches: the alphanumerics of
\* every script and the underscore
WordChar ==
    {"A", "B", "C", "D", "E", "F", "G", "H", "I", "J", "K", "L", "M", "N",
     "O", "P", "Q", "R", "S", "T", "U", "V", "W", "X", "Y", "Z", "a", "b",
     "c", "d", "e", "f", "g", "h", "i", "j", "k", "l", "m", "n", "o", "p",
     "q", "r", "s", "t", "u", "v", "w", "x", "y", "z", "0", "1", "2", "3",
     "4", "5", "6", "7", "8", "9", "_", "U+0663", "U+0967", "U+FF13",
     "U+00B2", "U+00AA", "U+00B5", "U+00C4", "U+00C9", "U+00D8", "U+00DF",
     "U+00E4", "U+00E9", "U+00F8", "U+0130", "U+0391", "U+03A3", "U+03B1",
     "U+03C2", "U+03C3"}

\* the characters of the alphabet str.lower() takes as cased letters when
\* it looks around a capital sigma
Cased ==
    {"A", "B", "C", "D", "E", "F", "G", "H", "I", "J", "K", "L", "M", "N",
     "O", "P", "Q", "R", "S", "T", "U", "V", "W", "X", "Y", "Z", "a", "b",
     "c", "d", "e", "f", "g", "h", "i", "j", "k", "l", "m", "n", "o", "p",
     "q", "r", "s", "t", "u", "v", "w", "x", "y", "z", "U+00AA", "U+00B5",
     "U+00C4", "U+00C9", "U+00D8", "U+00DF", "U+00E4", "U+00E9", "U+00F8",
     "U+0130", "U+0391", "U+03A3", "U+03B1", "U+03C2", "U+03C3"}

\* the characters of the alphabet str.lower() skips when it looks around a
\* capital sigma
CaseIgnorable ==
    {".", "U+0307"}

\* the characters of the alphabet, capital sigma aside, that str.lower()
\* changes
Capitals ==
    <<"A", "B", "C", "D", "E", "F", "G", "H", "I", "J", "K", "L", "M", "N",
      "O", "P", "Q", "R", "S", "T", "U", "V", "W", "X", "Y", "Z", "U+00C4",
      "U+00C9", "U+00D8", "U+0130", "U+0391">>

\* what str.lower() makes of each of them, in the same order; the capital
\* I with dot above becomes two characters
Lowered ==
    <<<<"a">>, <<"b">>, <<"c">>, <<"d">>, <<"e">>, <<"f">>, <<"g">>,
      <<"h">>, <<"i">>, <<"j">>, <<"k">>, <<"l">>, <<"m">>, <<"n">>,
      <<"o">>, <<"p">>, <<"q">>, <<"r">>, <<"s">>, <<"t">>, <<"u">>,
      <<"v">>, <<"w">>, <<"x">>, <<"y">>, <<"z">>, <<"U+00E4">>,
      <<"U+00E9">>, <<"U+00F8">>, <<"i", "U+0307">>, <<"U+03B1">>>>

\* the class [\.\s-] that ends the numbering prefix
Separator ==
    {".", "-"} \cup Space

\* s[i:] for a 1-based i
Drop(s, i) ==
    SubSeq(s, i, Len(s))

\* the index just after the longest run of characters of class C that
\* starts at index i (a greedy C* from i)
RunEnd(s, i, C) ==
    CHOOSE j \in i..(Len(s) + 1) :
        /\ \A k \in i..(j - 1) : s[k] \in C
        /\ (j = Len(s) + 1 \/ s[j] \notin C)

\* str.strip()
Strip(s) ==
    LET first == RunEnd(s, 1, Space)
    IN  IF first > Len(s)
        THEN << >>
        ELSE LET last == CHOOSE j \in first..Len(s) :
                             /\ s[j] \notin Space
                             /\ \A k \in (j + 1)..Len(s) : s[k] \in Space
             IN  SubSeq(s, first, last)

\* len(s.split()): the number of maximal runs of non-whitespace
WordCount(s) ==
    Cardinality({i \in 1..Len(s) :
                    s[i] \notin Space /\ (i = 1 \/ s[i - 1] \in Space)})

\* s.count(".")
DotCount(s) ==
    Cardinality({i \in 1..Len(s) : s[i] = "."})

\* needle in s (substring test)
Contains(s, needle) ==
    \E i \in 1..(Len(s) - Len(needle) + 1) :
        SubSeq(s, i, i + Len(needle) - 1) = needle

RECURSIVE Join(_)
\* " ".join(parts)
Join(parts) ==
    IF parts = << >> THEN << >>
    ELSE IF Len(parts) = 1 THEN parts[1]
    ELSE parts[1] \o <<" ">> \o Join(Tail(parts))

RECURSIVE Flatten(_)
\* the concatenation of a sequence of sequences (nested for-loops read in
\* order)
Flatten(ss) ==
    IF ss = << >> THEN << >> ELSE ss[1] \o Flatten(Tail(ss))

\* str.lower() on one character other than the capital sigma
LowerChar(c) ==
    IF \E i \in 1..Len(Capitals) : Capitals[i] = c
    THEN Lowered[CHOOSE i \in 1..Len(Capitals) : Capitals[i] = c]
    ELSE <<c>>

\* the capital sigma at index i ends a word: the nearest character before
\* it that is not skipped is a cased letter, and the nearest one after it,
\* if any, is not
FinalSigma(s, i) ==
    /\ \E j \in 1..(i - 1) :
          /\ s[j] \in Cased
          /\ \A k \in (j + 1)..(i - 1) : s[k] \in CaseIgnorable
    /\ ~\E j \in (i + 1)..Len(s) :
          /\ s[j] \in Cased
          /\ \A k \in (i + 1)..(j - 1) : s[k] \in CaseIgnorable

\* str.lower()
Lower(s) ==
    Flatten([i \in 1..Len(s) |->
                IF s[i] = "U+03A3"
                THEN IF FinalSigma(s, i) THEN <<"U+03C2">> ELSE <<"U+03C3">>
                ELSE LowerChar(s[i])])

RECURSIVE CollapseSpace(_)
\* re.sub(r"\s+", " ", s)
CollapseSpace(s) ==
    IF s = << >> THEN << >>
    ELSE IF s[1] \in Space
         THEN <<" ">> \o CollapseSpace(Drop(s, RunEnd(s, 1, Space)))
         ELSE <<s[1]>> \o CollapseSpace(Tail(s))

\* list(dict.fromkeys(xs)): duplicates removed, first occurrence kept
FromKeys(xs) ==
    LET firsts == {i \in 1..Len(xs) : \A j \in 1..(i - 1) : xs[j] # xs[i]}
        F[i \in 0..Len(xs)] ==
            IF i = 0 THEN << >>
            ELSE IF i \in firsts THEN Append(F[i - 1], xs[i]) ELSE F[i - 1]
    IN  F[Len(xs)]

\* round(x) of a size given in half points: Python rounds a tie to the even
\* integer
Round(h) ==
    IF h % 2 = 0 THEN h \div 2
    ELSE IF (h \div 2) % 2 = 0 THEN h \div 2 ELSE (h \div 2) + 1

\* abs(x)
Abs(x) ==
    IF x < 0 THEN -x ELSE x

\* ------------------------------------------------------------------------
\* The numbering pattern (src/main.py lines 99-101 and 120-124)
\*   ^\s*(\d+(?:\.\d+)*|Chapter\s\d+|Appendix\s\w)
\* ------------------------------------------------------------------------

\* t is matched in full by \d+(?:\.\d+)*
IsDotted(t) ==
    /\ t # << >>
    /\ \A k \in 1..Len(t) : t[k] \in Digit \cup {"."}
    /\ t[1] \in Digit
    /\ t[Len(t)] \in Digit
    /\ \A k \in 1..(Len(t) - 1) : ~(t[k] = "." /\ t[k + 1] = ".")

\* t is matched in full by Chapter\s\d+
IsChapter(t) ==
    /\ Len(t) >= 9
    /\ SubSeq(t, 1, 7) = T_Chapter
    /\ t[8] \in Space
    /\ \A k \in 9..Len(t) : t[k] \in Digit

\* t is matched in full by Appendix\s\w
IsAppendix(t) ==
    /\ Len(t) = 10
    /\ SubSeq(t, 1, 8) = T_Appendix
    /\ t[9] \in Space
    /\ t[10] \in WordChar

\* the indexes e at which a match of alternative alt (1, 2 or 3) that starts
\* at index i can end, e being the index just after the match
TokenEnds(s, i, alt) ==
    {e \in (i + 1)..(Len(s) + 1) :
        LET t == SubSeq(s, i, e - 1)
        IN  CASE alt = 1 -> IsDotted(t)
              [] alt = 2 -> IsChapter(t)
              [] OTHER   -> IsAppendix(t)}

\* the indexes at which ^\s* can stop
PrefixStarts(s) ==
    1..RunEnd(s, 1, Space)

\* greatest element of a non-empty set of integers
Max(S) ==
    CHOOSE x \in S : \A y \in S : y <= x

\* re.match(r"^\s*(...)[\.\s-]", s) is not None: with backtracking a match
\* exists when some way of matching the token is followed by a separator
NumberingMatch(s) ==
    \E i \in PrefixStarts(s) : \E alt \in 1..3 :
        \E e \in TokenEnds(s, i, alt) : e <= Len(s) /\ s[e] \in Separator

\* the index just after the match of r"^\s*(...)[\.\s-]*" that re.sub
\* replaces, 1 when the pattern does not match: \s* is greedy, the first
\* alternative that matches is taken at its greedy length, and the trailing
\* [\.\s-]* (which cannot fail) takes every separator that follows
StripEnd(s) ==
    LET i    == RunEnd(s, 1, Space)
        alts == {alt \in 1..3 : TokenEnds(s, i, alt) # {}}
    IN  IF alts = {} THEN 1
        ELSE LET alt == CHOOSE a \in alts : \A b \in alts : a <= b
             IN  RunEnd(s, Max(TokenEnds(s, i, alt)), Separator)

\* re.sub(r"^\s*(...)[\.\s-]*", "", line_text).strip()
CleanText(s) ==
    Strip(Drop(s, StripEnd(s)))

\* ------------------------------------------------------------------------
\* The span source: what fitz hands to the code
\* ------------------------------------------------------------------------

\* a span dict: text, size (half points) and font name
Span(text, size, font) ==
    [text |-> text, size |-> size, font |-> font]

\* a block dict holding one line per element of lines; a line is the
\* sequence of its spans (line["spans"])
Block(top, bottom, lines) ==
    [top |-> top, bottom |-> bottom, lines |-> lines]

\* a page: its rect height and its blocks in stored order
Page(height, blocks) ==
    [height |-> height, blocks |-> blocks]

\* an ordinary paragraph line at 12pt
BodyBlock ==
    Block(40, 60, << <<Span(T_Lorem, 24, F_Arial)>> >>)

\* page 1 of the annual report: a 28pt title above a paragraph
CoverPage ==
    Page(100, << Block(20, 30, << <<Span(T_AnnualReport, 56, F_ArialBold)>> >>),
                 BodyBlock >>)

\* a page whose heading is the bold 18pt line "1. Overview"
OverviewPage ==
    Page(100, << Block(20, 30, << <<Span(T_OneOverview, 36, F_ArialBold)>> >>),
                 BodyBlock >>)

\* a page whose heading is the bold 16pt line "1.1 Details"
DetailsPage ==
    Page(100, << Block(20, 30, << <<Span(T_OneOneDetails, 32, F_ArialBold)>> >>),
                 BodyBlock >>)

\* a cover whose title "Overview" is set in two spans of 28pt and 27.5pt, a
\* third span of 27pt, and a larger 28.5pt line in the lower 30% of the page
OverviewCover ==
    Page(100, << Block(75, 85, << <<Span(T_Footer, 57, F_Arial)>> >>),
                 Block(20, 30, << <<Span(T_OverviewPadded, 56, F_Arial),
                                    Span(T_Overview, 56, F_Arial)>>,
                                  <<Span(T_Year, 55, F_Arial)>>,
                                  <<Span(T_Details, 54, F_Arial)>> >>) >>)

\* bold lines at 20pt, 18pt, 16pt and 13.5pt between 12pt and 12.5pt
\* paragraphs
HeadsPage ==
    Page(100, << Block(12, 20, << <<Span(T_Summary, 40, F_ArialBold)>>,
                                  <<Span(T_Lorem, 24, F_Arial)>> >>),
                 Block(22, 40, << <<Span(T_Methods, 36, F_TimesBOLD)>>,
                                  <<Span(T_Dolor, 25, F_Arial)>> >>),
                 Block(42, 80, << <<Span(T_Results, 32, F_ArialBold)>>,
                                  <<Span(T_Notes, 27, F_ArialBold)>>,
                                  <<Span(T_TenWords, 27, F_ArialBold)>> >>) >>)

\* lines that start with a numbering token, bold and not, at body size and
\* at 18pt, one of them set in two spans
NumberedPage ==
    Page(100, << Block(12, 50, << <<Span(T_ChapterTwo, 24, F_ArialBold)>>,
                                  <<Span(T_SeeFig, 24, F_ArialBold)>>,
                                  <<Span(T_TwoScope, 36, F_Arial)>>,
                                  <<Span(T_Lorem, 24, F_Arial)>> >>),
                 Block(52, 88, << <<Span(T_AppendixB, 36, F_ArialBold)>>,
                                  <<Span(T_Deep, 24, F_ArialBold)>>,
                                  <<Span(T_One, 36, F_ArialBold),
                                    Span(T_Overview, 24, F_Arial)>> >>) >>)

\* bold lines that only resemble a numbered heading, a two-character line,
\* the words of a title, a blank line and an image block
TrickyPage ==
    Page(100, << Block(12, 50, << <<Span(T_2024Report, 36, F_ArialBold)>>,
                                  <<Span(T_AppendixAlpha, 32, F_ArialBold)>>,
                                  <<Span(T_Ab, 40, F_ArialBold)>>,
                                  <<Span(T_Lorem, 24, F_Arial)>> >>),
                 Block(52, 60, << >>),
                 Block(62, 88, << <<Span(T_Overview, 36, F_ArialBold)>>,
                                  <<Span(T_OVERVIEW, 32, F_ArialBold)>>,
                                  <<Span(T_Blank, 24, F_Arial)>>,
                                  <<Span(T_Dolor, 24, F_Arial)>> >>) >>)

\* a taller page with a bold running header and footer in the outer 10%,
\* and two bold lines stored bottom one first
MarginsPage ==
    Page(200, << Block(150, 170, << <<Span(T_Results, 32, F_ArialBold)>> >>),
                 Block(4, 16, << <<Span(T_Header, 40, F_ArialBold)>> >>),
                 Block(30, 50, << <<Span(T_Summary, 40, F_ArialBold)>>,
                                  <<Span(T_TabTitle, 40, F_Arial)>> >>),
                 Block(184, 196, << <<Span(T_Footer, 40, F_ArialBold)>> >>) >>)

\* a page without text: one image block
BlankPage ==
    Page(100, << Block(20, 60, << >>) >>)

\* a first page whose largest text, 28.5pt, sits in the lower 30%
FooterCover ==
    Page(100, << BodyBlock,
                 Block(75, 85, << <<Span(T_Footer, 57, F_ArialBold)>> >>) >>)

\* a page of lines written with characters outside ASCII and with line
\* breaks inside spans, under a 28pt title set on two lines in one span
ScriptsPage ==
    Page(100, << Block(12, 20, << <<Span(T_BigDeal, 56, F_Arial)>> >>),
                 Block(22, 50, << <<Span(T_ArabicIntro, 24, F_ArialBold)>>,
                                  <<Span(T_AppendixE, 24, F_ArialBold)>>,
                                  <<Span(T_EteUpper, 24, F_ArialBold)>>,
                                  <<Span(T_EteLower, 24, F_ArialBold)>>,
                                  <<Span(T_NewlineIntro, 24, F_ArialBold)>> >>),
                 Block(52, 88, << <<Span(T_AbFeed, 36, F_ArialBold)>>,
                                  <<Span(T_DottedI, 24, F_ArialBold)>>,
                                  <<Span(T_DotI, 24, F_ArialBold)>>,
                                  <<Span(T_SigmaUpper, 24, F_ArialBold)>>,
                                  <<Span(T_SigmaLower, 24, F_ArialBold)>> >>) >>)

\* the pages documents are made of
PagePool ==
    {CoverPage, OverviewPage, DetailsPage, OverviewCover, HeadsPage,
     NumberedPage, TrickyPage, MarginsPage, BlankPage, FooterCover,
     ScriptsPage}

\* the largest page_count of the documents built from the pool
MaxPages ==
    2

\* the annual report: cover, "1. Overview" on page 2, "1.1 Details" on
\* page 3; its rounded sizes are 28, 18, 16 and, three times, 12
ScenarioDoc ==
    <<CoverPage, OverviewPage, DetailsPage>>

\* the documents process_pdf is run on
Documents ==
    UNION {[1..n -> PagePool] : n \in 0..MaxPages} \cup {ScenarioDoc}

\* page.get_text("dict", sort=True)["blocks"]: the blocks ordered by the
\* bottom edge of their bbox, blocks with equal edges in stored order
SortBlocks(blocks) ==
    LET n == Len(blocks)
        \* the number of blocks that come before block i
        rank(i) == Cardinality({j \in 1..n :
                       \/ blocks[j].bottom < blocks[i].bottom
                       \/ blocks[j].bottom = blocks[i].bottom /\ j < i})
    IN  [k \in 1..n |-> blocks[CHOOSE i \in 1..n : rank(i) = k - 1]]

\* page.get_text("dict", sort=True, clip=clip_box)["blocks"] for the clip
\* box from 10% to 90% of the page height: the blocks inside it
ClipBlocks(page) ==
    SelectSeq(SortBlocks(page.blocks),
              LAMBDA b : 10 * b.top >= page.height
                         /\ 10 * b.bottom <= 9 * page.height)

\* the lines the nested loops over blocks and block["lines"] visit, in order
LinesOf(blocks) ==
    Flatten([i \in 1..Len(blocks) |-> blocks[i].lines])

\* every span the nested loops over blocks, lines and spans visit, in order
SpansOf(blocks) ==
    Flatten(LinesOf(blocks))

\* ------------------------------------------------------------------------
\* find_document_title
\* ------------------------------------------------------------------------

\* title_candidates were the 70% test left out: every span within one point
\* of the maximum, wherever its block lies
TitleCandidatesWholePage(page) ==
    LET spans == SpansOf(SortBlocks(page.blocks))
        m     == IF spans = << >> THEN 0
                 ELSE CHOOSE x \in {spans[i].size : i \in 1..Len(spans)} :
                          \A i \in 1..Len(spans) : spans[i].size <= x
        near  == SelectSeq(spans, LAMBDA sp : sp.size - m < 2 /\ m - sp.size < 2)
    IN  [i \in 1..Len(near) |-> Strip(near[i].text)]

\* max_font_size after the first scan of page one
MaxFontSize(blocks) ==
    LET spans == SpansOf(blocks)
    IN  IF spans = << >> THEN 0
        ELSE Max({spans[i].size : i \in 1..Len(spans)})

\* title_candidates after the second scan: the stripped texts of the spans
\* within one point of the maximum in the blocks whose bottom edge is above
\* 70% of the page height
TitleCandidates(page) ==
    LET blocks == SortBlocks(page.blocks)
        m      == MaxFontSize(blocks)
        upper  == SelectSeq(blocks,
                            LAMBDA b : 10 * b.bottom < 7 * page.height)
        near   == SelectSeq(SpansOf(upper), LAMBDA sp : Abs(sp.size - m) < 2)
    IN  [i \in 1..Len(near) |-> Strip(near[i].text)]

\* find_document_title were the "Untitled Document" default left out: an
\* empty candidate list joins to the empty string
FindDocumentTitleNoDefault(d) ==
    Strip(CollapseSpace(Join(FromKeys(TitleCandidates(d[1])))))

\* find_document_title(doc)
FindDocumentTitle(d) ==
    LET cands == TitleCandidates(d[1])
    IN  IF cands = << >> THEN T_Untitled
        ELSE Strip(CollapseSpace(Join(FromKeys(cands))))

\* ------------------------------------------------------------------------
\* The font size profile
\* ------------------------------------------------------------------------

\* the rounded sizes the Counter is fed, in the order the generator yields
\* them (pages in order, blocks in stored order)
RoundedSizes(d) ==
    LET spans == Flatten([p \in 1..Len(d) |-> SpansOf(d[p].blocks)])
    IN  [i \in 1..Len(spans) |-> Round(spans[i].size)]

\* Counter(xs) as its items in insertion order
Counter(xs) ==
    LET keys == FromKeys(xs)
    IN  [k \in 1..Len(keys) |->
            [size  |-> keys[k],
             count |-> Cardinality({i \in 1..Len(xs) : xs[i] = keys[k]})]]

\* sizes.most_common(1)[0][0]: the first inserted of the most frequent keys
MostCommon(items) ==
    LET best == CHOOSE k \in 1..Len(items) :
                    /\ \A j \in 1..Len(items) : items[j].count <= items[k].count
                    /\ \A j \in 1..(k - 1) : items[j].count < items[k].count
    IN  items[best].size

\* sorted(S, reverse=True) for a set of integers
SortedDescending(S) ==
    [k \in 1..Cardinality(S) |->
        CHOOSE x \in S : Cardinality({y \in S : y > x}) = k - 1]

\* heading_sizes were the comparison size >= body_size
HeadingSizesWithBody(items, body) ==
    SortedDescending({items[k].size : k \in {j \in 1..Len(items) :
                                                items[j].size >= body}})

\* heading_sizes
HeadingSizes(items, body) ==
    SortedDescending({items[k].size : k \in {j \in 1..Len(items) :
                                                items[j].size > body}})

\* f"H{n}"
LevelName(n) ==
    <<"H1", "H2", "H3", "H4">>[n]

\* size_to_level were the levels handed out from the smallest kept size up
SizeToLevelAscending(heading) ==
    LET kept == SubSeq(heading, 1, IF Len(heading) < 3 THEN Len(heading) ELSE 3)
    IN  [s \in {kept[i] : i \in 1..Len(kept)} |->
            LevelName(Len(kept) + 1 - (CHOOSE i \in 1..Len(kept) : kept[i] = s))]

\* size_to_level: the first three heading sizes mapped to H1, H2, H3
SizeToLevel(heading) ==
    LET kept == SubSeq(heading, 1, IF Len(heading) < 3 THEN Len(heading) ELSE 3)
    IN  [s \in {kept[i] : i \in 1..Len(kept)} |->
            LevelName(CHOOSE i \in 1..Len(kept) : kept[i] = s)]

\* ------------------------------------------------------------------------
\* The heading classifier
\* ------------------------------------------------------------------------

\* line_text
LineText(line) ==
    Strip(Join([i \in 1..Len(line) |-> line[i].text]))

\* the skip test were the look-up in processed_texts left out
RejectedNoDedup(text, processed) ==
    \/ text = << >>
    \/ Len(text) < 3

\* the test that skips a line before it is examined
Rejected(text, processed) ==
    \/ text = << >>
    \/ Len(text) < 3
    \/ Lower(text) \in processed

\* is_bold
IsBold(span) ==
    Contains(Lower(span.font), T_Bold)

\* min(a, b) and max(a, b)
Min2(a, b) ==
    IF a < b THEN a ELSE b

Max2(a, b) ==
    IF a > b THEN a ELSE b

\* the numbered-heading check were only the '.' of the matched prefix counted
NumberedLevelPrefixDots(text, bold) ==
    IF NumberingMatch(text) /\ bold
    THEN LevelName(Min2(Max2(2, DotCount(SubSeq(text, 1, StripEnd(text) - 1)) + 2), 4))
    ELSE "None"

\* level after the numbered-heading check, "None" when it is not set
NumberedLevel(text, bold) ==
    IF NumberingMatch(text) /\ bold
    THEN LevelName(Min2(Max2(2, DotCount(text) + 2), 4))
    ELSE "None"

\* the three checks were the ranked-size check made first
ClassifyRankFirst(text, fontSize, bold, body, toLevel) ==
    IF fontSize \in DOMAIN toLevel /\ bold
    THEN toLevel[fontSize]
    ELSE IF NumberedLevel(text, bold) # "None"
    THEN NumberedLevel(text, bold)
    ELSE IF bold /\ fontSize > body /\ WordCount(text) < 10
    THEN "H3"
    ELSE "None"

\* level after the three checks, "None" when the line is not a heading
Classify(text, fontSize, bold, body, toLevel) ==
    LET numbered == NumberedLevel(text, bold)
    IN  IF numbered = "None" /\ fontSize \in DOMAIN toLevel /\ bold
        THEN toLevel[fontSize]
        ELSE IF numbered = "None" /\ bold /\ fontSize > body
                /\ WordCount(text) < 10
        THEN "H3"
        ELSE numbered

\* the entry were page_num stored as enumerate yields it, from 0
EntryZeroBasedPage(level, text, pageNum) ==
    [level |-> level, text |-> CleanText(text), page |-> pageNum]

\* the outline entry appended for an accepted line
Entry(level, text, pageNum) ==
    [level |-> level, text |-> CleanText(text), page |-> pageNum + 1]

\* ------------------------------------------------------------------------
\* process_pdf as a state machine
\* ------------------------------------------------------------------------

VARIABLES
    doc,              \* the opened document: a sequence of pages
    pc,               \* "open", "count", "scan" or "done"
    title,            \* title
    processed_texts,  \* processed_texts
    sizes,            \* sizes, the Counter's items in insertion order
    body_size,        \* body_size
    size_to_level,    \* size_to_level
    page_num,         \* page_num of the outer loop
    line_idx,         \* position in the lines of the page being scanned
    outline,          \* outline
    result            \* the returned dict, once pc = "done"

vars ==
    <<doc, pc, title, processed_texts, sizes, body_size, size_to_level,
      page_num, line_idx, outline, result>>

\* the lines of the page the main pass is on
PageLines ==
    LinesOf(ClipBlocks(doc[page_num + 1]))

\* the line the main pass is at
CurLine ==
    PageLines[line_idx]

\* the loops are at a line
AtLine ==
    /\ pc = "scan"
    /\ page_num < Len(doc)
    /\ line_idx <= Len(PageLines)

CurText ==
    LineText(CurLine)

CurFontSize ==
    Round(CurLine[1].size)

CurLevel ==
    Classify(CurText, CurFontSize, IsBold(CurLine[1]), body_size,
             size_to_level)

Init ==
    /\ doc \in Documents
    /\ pc = "open"
    /\ title = << >>
    /\ processed_texts = {}
    /\ sizes = << >>
    /\ body_size = 0
    /\ size_to_level = << >>
    /\ page_num = 0
    /\ line_idx = 1
    /\ outline = << >>
    /\ result = [title |-> << >>, outline |-> << >>]

\* lines 53-54: a document without pages
OpenEmpty ==
    /\ pc = "open"
    /\ Len(doc) = 0
    /\ result' = [title |-> T_Empty, outline |-> << >>]
    /\ pc' = "done"
    /\ UNCHANGED <<doc, title, processed_texts, sizes, body_size,
                   size_to_level, page_num, line_idx, outline>>

\* lines 56-66: the title, the empty outline, the seeded set and the Counter
FindTitle ==
    /\ pc = "open"
    /\ Len(doc) > 0
    /\ title' = FindDocumentTitle(doc)
    /\ outline' = << >>
    /\ processed_texts' = {Lower(title')}
    /\ sizes' = Counter(RoundedSizes(doc))
    /\ pc' = "count"
    /\ UNCHANGED <<doc, body_size, size_to_level, page_num, line_idx, result>>

\* lines 68-69: no span in the whole document
NoSpans ==
    /\ pc = "count"
    /\ sizes = << >>
    /\ result' = [title |-> title, outline |-> << >>]
    /\ pc' = "done"
    /\ UNCHANGED <<doc, title, processed_texts, sizes, body_size,
                   size_to_level, page_num, line_idx, outline>>

\* lines 71-74: body size and the ranked heading sizes
RankSizes ==
    /\ pc = "count"
    /\ sizes # << >>
    /\ body_size' = MostCommon(sizes)
    /\ size_to_level' = SizeToLevel(HeadingSizes(sizes, body_size'))
    /\ page_num' = 0
    /\ line_idx' = 1
    /\ pc' = "scan"
    /\ UNCHANGED <<doc, title, processed_texts, sizes, outline, result>>

\* lines 86-91: the line is too short or its text was seen, continue
RejectLine ==
    /\ AtLine
    /\ Rejected(CurText, processed_texts)
    /\ line_idx' = line_idx + 1
    /\ UNCHANGED <<doc, pc, title, processed_texts, sizes, body_size,
                   size_to_level, page_num, outline, result>>

\* lines 93-118: the line is examined and gets no level
PassLine ==
    /\ AtLine
    /\ ~Rejected(CurText, processed_texts)
    /\ CurLevel = "None"
    /\ line_idx' = line_idx + 1
    /\ UNCHANGED <<doc, pc, title, processed_texts, sizes, body_size,
                   size_to_level, page_num, outline, result>>

\* lines 93-128: the line is examined, gets a level and is appended
AcceptLine ==
    /\ AtLine
    /\ ~Rejected(CurText, processed_texts)
    /\ CurLevel # "None"
    /\ outline' = Append(outline, Entry(CurLevel, CurText, page_num))
    /\ processed_texts' = processed_texts \cup {Lower(CurText)}
    /\ line_idx' = line_idx + 1
    /\ UNCHANGED <<doc, pc, title, sizes, body_size, size_to_level, page_num,
                   result>>

\* lines 76-82: the lines of the page are exhausted, on to the next page
NextPage ==
    /\ pc = "scan"
    /\ page_num < Len(doc)
    /\ line_idx > Len(PageLines)
    /\ page_num' = page_num + 1
    /\ line_idx' = 1
    /\ UNCHANGED <<doc, pc, title, processed_texts, sizes, body_size,
                   size_to_level, outline, result>>

\* lines 130-131: the pages are exhausted, the result is returned
Finish ==
    /\ pc = "scan"
    /\ page_num = Len(doc)
    /\ result' = [title |-> title, outline |-> outline]
    /\ pc' = "done"
    /\ UNCHANGED <<doc, title, processed_texts, sizes, body_size,
                   size_to_level, page_num, line_idx, outline>>

Next ==
    \/ OpenEmpty
    \/ FindTitle
    \/ NoSpans
    \/ RankSizes
    \/ RejectLine
    \/ PassLine
    \/ AcceptLine
    \/ NextPage
    \/ Finish

Spec ==
    Init /\ [][Next]_vars

\* ------------------------------------------------------------------------
\* Properties
\* ------------------------------------------------------------------------

\* the main pass has begun: body_size and size_to_level are set
Ranked ==
    pc = "scan" \/ (pc = "done" /\ sizes # << >>)

\* the line at the cursor is examined: it passed the length and duplicate
\* tests
Examined ==
    AtLine /\ ~Rejected(CurText, processed_texts)

\* this step appends exactly one entry to the outline
Appends ==
    /\ Len(outline') = Len(outline) + 1
    /\ SubSeq(outline', 1, Len(outline)) = outline

\* the entry a step appended
Appended ==
    outline'[Len(outline')]

\* clamp(x, lo, hi)
Clamp(x, lo, hi) ==
    IF x < lo THEN lo ELSE IF x > hi THEN hi ELSE x

\* C1 as stated: the scenario document returns title "Annual Report 2024"
\* and the outline [H1 "Overview" page 2, H3 "Details" page 3].
C1_ScenarioAsStated ==
    (pc = "done" /\ doc = ScenarioDoc) =>
        result = [title   |-> T_AnnualReport,
                  outline |-> << [level |-> "H1", text |-> T_Overview,
                                  page |-> 2],
                                 [level |-> "H3", text |-> T_Details,
                                  page |-> 3] >>]

\* C1 amended: the scenario document returns title "Annual Report 2024" and
\* the outline [H3 "Overview" page 2, H3 "Details" page 3]: "1. Overview"
\* is bold, matches the numbering pattern and holds one '.', so the
\* numbering check gives it H3 before its size rank is looked at.
C1_Scenario ==
    (pc = "done" /\ doc = ScenarioDoc) =>
        result = [title   |-> T_AnnualReport,
                  outline |-> << [level |-> "H3", text |-> T_Overview,
                                  page |-> 2],
                                 [level |-> "H3", text |-> T_Details,
                                  page |-> 3] >>]

C1_Witness ==
    /\ pc = "done"
    /\ doc = ScenarioDoc
    /\ body_size = 12
    /\ Len(result.outline) = 2

\* C2 as stated: in the returned Result no outline entry's lowercase text
\* equals the lowercase title.
C2_TitlePrecedence ==
    pc = "done" =>
        \A i \in 1..Len(result.outline) :
            Lower(result.outline[i].text) # Lower(result.title)

\* C3: a line whose text is shorter than 3 characters or whose lowercase
\* text is in the de-duplication set adds no entry; the set holds the
\* lowercase title from the start of the main pass, only grows, and every
\* step that adds an entry is at a line whose lowercase text was not in the
\* set and puts it there; so the entries number exactly the accepted
\* lowercase texts, no two of them from the same lowercase text.
C3_NoShortOrDuplicate ==
    /\ [][(AtLine /\ (Len(CurText) < 3
                        \/ Lower(CurText) \in processed_texts))
            => outline' = outline]_vars
    /\ [][outline' # outline
            => /\ AtLine
               /\ Len(CurText) >= 3
               /\ Lower(CurText) \notin processed_texts
               /\ processed_texts' = processed_texts \cup {Lower(CurText)}]_vars
    /\ [][pc = "scan" => processed_texts \subseteq processed_texts']_vars
    /\ [](pc = "scan" => /\ Lower(title) \in processed_texts
                         /\ Cardinality(processed_texts) = Len(outline) + 1)

\* a bold line that would be a heading is at the cursor and its lowercase
\* text is that of a line accepted earlier, not of the title
C3_Witness ==
    /\ AtLine
    /\ Len(CurText) >= 3
    /\ Lower(CurText) \in processed_texts
    /\ Lower(CurText) # Lower(title)
    /\ CurLevel # "None"
    /\ Len(outline) > 0

\* C4: every examined bold line whose start matches the numbering pattern
\* adds an entry of level H{clamp(D + 2, 2, 4)}, D the number of '.' in the
\* whole line text, whatever its size; "1.2 See fig. 3.4 for details"
\* gets H4.
C4_NumberingDepth ==
    [][(Examined /\ IsBold(CurLine[1]) /\ NumberingMatch(CurText))
        => /\ Appends
           /\ Appended.level = LevelName(Clamp(DotCount(CurText) + 2, 2, 4))
           /\ (CurText = T_SeeFig => Appended.level = "H4")]_vars

\* the outline holds the H4 entry of "1.2 See fig. 3.4 for details" and the
\* entry of a numbered line whose size is ranked at another level
C4_Witness ==
    /\ \E i \in 1..Len(outline) :
          /\ outline[i].text = CleanText(T_SeeFig)
          /\ outline[i].level = "H4"
    /\ Examined
    /\ IsBold(CurLine[1])
    /\ NumberingMatch(CurText)
    /\ CurFontSize \in DOMAIN size_to_level
    /\ size_to_level[CurFontSize] # CurLevel

\* C5: when three heading sizes S1 > S2 > S3 are kept, every examined bold
\* line whose text does not match the numbering check and whose rounded
\* size is the k-th largest kept size adds an entry of level Hk.
C5_LevelRanking ==
    [][(/\ Examined
        /\ IsBold(CurLine[1])
        /\ ~NumberingMatch(CurText)
        /\ Cardinality(DOMAIN size_to_level) = 3
        /\ CurFontSize \in DOMAIN size_to_level)
        => /\ Appends
           /\ Appended.level =
                 LevelName(1 + Cardinality({s \in DOMAIN size_to_level :
                                               s > CurFontSize}))]_vars

\* with three kept sizes the outline holds entries of levels H1, H2 and H3
\* of unnumbered lines
C5_Witness ==
    /\ pc = "done"
    /\ Cardinality(DOMAIN size_to_level) = 3
    /\ \A lv \in {"H1", "H2", "H3"} :
          \E i \in 1..Len(outline) : outline[i].level = lv
    /\ outline[1].text = T_Summary

\* C6: body_size is a most frequent rounded size of the document; the sizes
\* that have a level are at most 3, each larger than body_size, the largest
\* such sizes present, and the k-th largest of them has level Hk.
C6_SizeRanking ==
    Ranked =>
        LET rounded == RoundedSizes(doc)
            present == {rounded[i] : i \in 1..Len(rounded)}
            freq    == [v \in present |->
                           Cardinality({i \in 1..Len(rounded) :
                                           rounded[i] = v})]
            kept    == DOMAIN size_to_level
            larger  == {v \in present : v > body_size}
        IN  /\ body_size \in present
            /\ \A v \in present : freq[v] <= freq[body_size]
            /\ kept \subseteq larger
            /\ Cardinality(kept) = Min2(3, Cardinality(larger))
            /\ \A s \in kept : \A v \in larger \ kept : v < s
            /\ \A s \in kept :
                  size_to_level[s] =
                      LevelName(1 + Cardinality({t \in kept : t > s}))

\* four sizes above body_size are present, so a fourth-largest one is left
\* without a level, and another size is as frequent as body_size
C6_Witness ==
    /\ Ranked
    /\ LET rounded == RoundedSizes(doc)
           present == {rounded[i] : i \in 1..Len(rounded)}
           freq    == [v \in present |->
                          Cardinality({i \in 1..Len(rounded) :
                                          rounded[i] = v})]
       IN  /\ Cardinality({v \in present : v > body_size}) >= 4
           /\ \E v \in present :
                 v # body_size /\ freq[v] = freq[body_size]

\* C7: the outline only grows, by one entry appended for the line at the
\* cursor with that page's number; the cursor only moves forward; so the
\* page numbers of the outline are non-decreasing and lie in 1..page_count,
\* and the Result returns the outline as built.
C7_OutlineOrder ==
    /\ [][outline' # outline
            => /\ Appends
               /\ AtLine
               /\ Appended.page = page_num + 1
               /\ Appended.text = CleanText(CurText)]_vars
    /\ [][pc = "scan"
            => \/ page_num' > page_num
               \/ page_num' = page_num /\ line_idx' >= line_idx]_vars
    /\ [](/\ \A i \in 1..Len(outline) : outline[i].page \in 1..Len(doc)
          /\ \A i \in 1..Len(outline) : \A j \in i..Len(outline) :
                outline[i].page <= outline[j].page)
    /\ [](pc = "done" /\ Len(doc) > 0 => result.outline = outline)

\* the Result holds entries of two different pages, the first two from one
\* page whose blocks are stored bottom one first
C7_Witness ==
    /\ pc = "done"
    /\ Len(result.outline) >= 3
    /\ result.outline[1].page = 1
    /\ result.outline[1].text = T_Summary
    /\ doc[1] = MarginsPage
    /\ result.outline[2].page = 1
    /\ result.outline[Len(result.outline)].page = 2

\* no span in any block of any page
NoSpanAnywhere ==
    \A p \in 1..Len(doc) : SpansOf(doc[p].blocks) = << >>

\* C8: a document with no page returns exactly title "Empty Document" and an
\* empty outline, with the title detector and the size profile not run; a
\* document with pages and no span returns exactly title "Untitled
\* Document" and an empty outline.
C8_ShortCircuit ==
    pc = "done" =>
        /\ Len(doc) = 0 =>
              /\ result = [title |-> T_Empty, outline |-> << >>]
              /\ title = << >>
              /\ processed_texts = {}
              /\ sizes = << >>
        /\ (Len(doc) > 0 /\ NoSpanAnywhere) =>
              /\ result = [title |-> T_Untitled, outline |-> << >>]
              /\ page_num = 0

C8_Witness ==
    /\ pc = "done"
    /\ Len(doc) = 2
    /\ NoSpanAnywhere

RECURSIVE Words(_)
\* the maximal runs of non-whitespace of s, in order
Words(s) ==
    LET from == RunEnd(s, 1, Space)
    IN  IF from > Len(s) THEN << >>
        ELSE LET to == CHOOSE j \in from..(Len(s) + 1) :
                           /\ \A k \in from..(j - 1) : s[k] \notin Space
                           /\ (j = Len(s) + 1 \/ s[j] \in Space)
             IN  <<SubSeq(s, from, to - 1)>> \o Words(Drop(s, to))

\* the spans of page one that are title candidates, as (block, line, span)
\* positions in the sorted blocks
CandidatePositions ==
    LET blocks == SortBlocks(doc[1].blocks)
        all    == UNION {UNION {{<<b, l, s>> :
                                    s \in 1..Len(blocks[b].lines[l])} :
                                l \in 1..Len(blocks[b].lines)} :
                         b \in 1..Len(blocks)}
        size(pos) == blocks[pos[1]].lines[pos[2]][pos[3]].size
    IN  {pos \in all :
            /\ 10 * blocks[pos[1]].bottom < 7 * doc[1].height
            /\ \A other \in all : size(other) - size(pos) < 2}

\* position a comes before position b in reading order
Before(a, b) ==
    \/ a[1] < b[1]
    \/ a[1] = b[1] /\ a[2] < b[2]
    \/ a[1] = b[1] /\ a[2] = b[2] /\ a[3] < b[3]

\* the stripped text of the span at a position of page one
CandidateText(pos) ==
    Strip(SortBlocks(doc[1].blocks)[pos[1]].lines[pos[2]][pos[3]].text)

\* the candidate positions that are the first with their text, in reading
\* order
FirstCandidates ==
    LET firsts == {a \in CandidatePositions :
                      \A b \in CandidatePositions :
                          Before(b, a) => CandidateText(b) # CandidateText(a)}
    IN  [k \in 1..Cardinality(firsts) |->
            CHOOSE a \in firsts :
                Cardinality({b \in firsts : Before(b, a)}) = k - 1]

\* C9: the title comes from page one only: it is "Untitled Document" when
\* no span of a block whose bottom edge is above 70% of the page height has
\* a size within 1.0 of the page's maximum, and otherwise the texts of
\* those spans, first occurrences only, in reading order, joined by single
\* spaces with every whitespace run collapsed and the ends trimmed.
C9_TitleDetection ==
    (pc # "open" /\ Len(doc) > 0) =>
        IF CandidatePositions = {}
        THEN title = T_Untitled
        ELSE /\ Words(title) =
                  Flatten([k \in 1..Len(FirstCandidates) |->
                              Words(CandidateText(FirstCandidates[k]))])
             /\ title = Join(Words(title))

\* page one has a larger span in its lower 30%, a candidate that repeats an
\* earlier one and a span exactly 1.0 below the maximum
C9_Witness ==
    /\ pc = "done"
    /\ Len(doc) = 2
    /\ doc[1] = OverviewCover
    /\ title = T_Overview
    /\ Cardinality(CandidatePositions) = 2

\* C10 as stated: an accepted line whose start does not match the numbered-
\* heading check is emitted with its trimmed text unchanged.
C10_SamePattern ==
    [][(Examined /\ CurLevel # "None" /\ ~NumberingMatch(CurText))
        => /\ Appends
           /\ Appended.text = CurText]_vars

====
